---- MODULE Spec2Model ----
(***************************************************************************)
(* Model of the sequential pipeline executor of                            *)
(* src/assets/samples/advanced_sample.py: WorkflowStep.run (lines 37-44)   *)
(* and WorkflowEngine.execute (lines 51-55), run as asyncio tasks on one   *)
(* cooperative event loop.                                                 *)
(*                                                                         *)
(* A payload dict lives in the heap and is passed by reference.  Each task *)
(* is one call of execute; its position pc is                              *)
(*   "idle"       execute not yet entered                                  *)
(*   "for"        line 52, about to take the next step of self.steps       *)
(*   "while"      line 39, inside run, at the head of the attempt loop     *)
(*   "ret"        line 44, inside run, about to return payload             *)
(*   "sleep"      line 54, suspended in await asyncio.sleep(0)             *)
(*   "done"       line 55 has returned payload                             *)
(*   "cancelled"  CancelledError was raised at the await of line 54        *)
(*   "error"      KeyError raised at line 43 left run and execute          *)
(***************************************************************************)
EXTENDS Integers, Sequences, FiniteSets, TLC

\* steps     self.steps of the engine (line 49), shared by every execute call
\* heap      the dicts, by reference
\* pc        position of each execute call (task)
\* payload   execute's local payload: a reference into heap (lines 51, 53)
\* idx       how many steps the for loop of line 52 has taken
\* attempts  run's local attempts (lines 38, 40)
\* result    the reference execute returned (line 55), 0 while there is none
\* start     history variable: the dict as it was when execute was entered
\* calls     history variable: per task, the run calls made so far, each with
\*           the step's index and the dict as it was when run was entered
\* awaits    history variable: per task, how often it has reached the await of
\*           line 54
VARIABLES steps, heap, pc, payload, idx, attempts, result, start, calls, awaits

vars == <<steps, heap, pc, payload, idx, attempts, result, start, calls, awaits>>

\* ---------------------------------------------------------------- bounds
MaxSteps == 3
MaxRetries == 2
NumTasks == 2
MaxConcSteps == 2

\* ---------------------------------------------------------------- values
\* Step names of main (lines 95-97).
Names == <<"fetch", "validate", "transform">>

\* A history entry that is no step's name, for records that arrive non-empty.
Earlier == "earlier"

Tasks == DOMAIN pc

\* The name of step k is one already used by steps 1..k-1 or the first unused
\* one of Names: every engine over at most Len(Names) names, up to renaming.
CanonicalNames(s) ==
    \A k \in 1..Len(s) :
        \E j \in 1..Len(Names) :
            /\ s[k] = Names[j]
            /\ \A i \in 1..(j - 1) : \E m \in 1..(k - 1) : s[m] = Names[i]

NameSeqs(n) == {s \in [1..n -> {Names[j] : j \in 1..Len(Names)}] : CanonicalNames(s)}

\* retries: int = 0 (line 34), non-negative.
RetrySeqs(n, maxR) == [1..n -> 0..maxR]

WorkflowStep(nm, r) == [name |-> nm, retries |-> r]

\* WorkflowEngine.__init__: self.steps = list(steps).
Engines(maxLen, maxR) ==
    UNION {{[k \in 1..n |-> WorkflowStep(ns[k], rs[k])] : ns \in NameSeqs(n), rs \in RetrySeqs(n, maxR)}
           : n \in 0..maxLen}

\* The steps of main (lines 94-98).
MainSteps == <<WorkflowStep("fetch", 0), WorkflowStep("validate", 1), WorkflowStep("transform", 0)>>

\* The dicts handed to execute: history and skip, or skip alone (malformed).
Payloads ==
    {[history |-> h, skip |-> s] : h \in {<<>>, <<Earlier>>}, s \in BOOLEAN}
        \cup {[skip |-> s] : s \in BOOLEAN}

\* ------------------------------------------------------------- helpers
\* Variant: the flag is looked up under a key the dict never holds.
SkipSetWrongKey(d) == IF "skipped" \in DOMAIN d THEN d.skipped ELSE FALSE

\* payload.get("skip") taken as a truth value (line 41).
SkipSet(d) == IF "skip" \in DOMAIN d THEN d.skip ELSE FALSE

HasHistory(d) == "history" \in DOMAIN d

\* Variant: the loop bound is off by one (attempts < self.retries).
LoopCondStrict(a, r) == a < r

\* while attempts <= self.retries (line 39).
LoopCond(a, r) == a <= r

\* Variant: history kept as a set of names, a name recorded once.
AppendNameOnce(d, nm) ==
    IF \E i \in 1..Len(d.history) : d.history[i] = nm
    THEN d
    ELSE [d EXCEPT !.history = Append(@, nm)]

\* Variant: the name is put in front of the history.
AppendNameFront(d, nm) == [d EXCEPT !.history = <<nm>> \o @]

\* payload["history"].append(self.name) (line 43).
AppendName(d, nm) == [d EXCEPT !.history = Append(@, nm)]

\* Variant: run returns a fresh dict instead of the one it was given.
RunResultCopy(p) == p + 1

\* return payload (line 44): the reference run was given.
RunResult(p) == p

\* Variant: the attempt loop of run yields to the event loop.
HoldsControlOutsideLoop(t) == pc[t] \in {"for", "ret"}

\* A task between resuming (or entering execute) and its next await holds the
\* single thread of the event loop: lines 52-53 and all of run are synchronous.
HoldsControl(t) == pc[t] \in {"for", "while", "ret"}

InsideRun(t) == pc[t] \in {"while", "ret"}

\* The event loop runs another callback only when no task holds the thread.
LoopFree == \A u \in Tasks : ~HoldsControl(u)

\* await asyncio.sleep(0) (line 54): the only suspension point of execute.
AtAwait(t) == pc[t] = "sleep"

\* Variant: the steps are taken in reverse order.
CurrentStepReversed(t) == steps[Len(steps) + 1 - idx[t]]

\* The step the for loop of line 52 has bound: the idx-th of self.steps.
CurrentStep(t) == steps[idx[t]]

\* Variant: the engine keeps one cursor over its steps for all execute calls.
MoreStepsSharedCursor(t) ==
    LET RECURSIVE Taken(_)
        Taken(T) == IF T = {} THEN 0
                    ELSE LET u == CHOOSE v \in T : TRUE IN idx[u] + Taken(T \ {u})
    IN Taken(Tasks) < Len(steps)

\* Variant: the engine leaves its loop once skip is set.
MoreStepsUnlessSkip(t) == idx[t] < Len(steps) /\ ~SkipSet(heap[payload[t]])

\* The iterator of line 52 has another step.
MoreSteps(t) == idx[t] < Len(steps)

\* Variant: run yields inside its attempt loop, so a cancel can land there.
CancelPointInRun(t) == pc[t] \in {"sleep", "while"}

\* task.cancel() takes effect where the task is suspended: the await of line 54.
CancelPoint(t) == AtAwait(t) /\ LoopFree

\* Variant: run catches the KeyError and returns the payload.
OnKeyErrorCaught == "ret"

\* Where a KeyError of line 43 leaves the task: run (lines 37-44) and execute
\* (lines 51-55) have no handler, so the call ends with the exception.
OnKeyError == "error"

\* Variant: the engine does not await after its last step.
AfterRunUnlessLast(t) == IF idx[t] < Len(steps) THEN "sleep" ELSE "for"

\* Where execute goes when run has returned: the await of line 54, after
\* every step.
AfterRun(t) == "sleep"

\* Variant: the step that breaks consumes the flag.
AfterBreakConsumed(d) == [d EXCEPT !.skip = FALSE]

\* The dict after the break of line 42: run writes nothing on that path.
AfterBreak(d) == d

\* Scenario of one step "a" with two retries.
ScenarioC == <<WorkflowStep("a", 2)>>

\* ---------------------------------------------------------------- Init
InitTasks(T, engines) ==
    /\ steps \in engines
    /\ heap \in [{1} -> Payloads]
    /\ pc = [t \in T |-> "idle"]
    /\ payload = [t \in T |-> 1]
    /\ idx = [t \in T |-> 0]
    /\ attempts = [t \in T |-> 0]
    /\ result = [t \in T |-> 0]
    /\ start = [t \in T |-> <<>>]
    /\ calls = [t \in T |-> <<>>]
    /\ awaits = [t \in T |-> 0]

Init == InitTasks({1}, Engines(MaxSteps, MaxRetries) \cup {ScenarioC})

\* ------------------------------------------------------------- actions
\* The event loop starts the coroutine: execute(payload) is entered (line 51).
ExecuteCall(t) ==
    /\ pc[t] = "idle"
    /\ LoopFree
    /\ pc' = [pc EXCEPT ![t] = "for"]
    /\ start' = [start EXCEPT ![t] = <<heap[payload[t]]>>]
    /\ UNCHANGED <<steps, heap, payload, idx, attempts, result, calls, awaits>>

\* for step in self.steps: payload = step.run(payload) -- the call (lines 52-53),
\* and attempts = 0 (line 38).
ExecuteNext(t) ==
    /\ pc[t] = "for"
    /\ MoreSteps(t)
    /\ idx' = [idx EXCEPT ![t] = @ + 1]
    /\ attempts' = [attempts EXCEPT ![t] = 0]
    /\ calls' = [calls EXCEPT ![t] = Append(@, [step |-> idx[t] + 1, entry |-> heap[payload[t]]])]
    /\ pc' = [pc EXCEPT ![t] = "while"]
    /\ UNCHANGED <<steps, heap, payload, result, start, awaits>>

\* The iterator is exhausted: return payload (line 55).
ExecuteReturn(t) ==
    /\ pc[t] = "for"
    /\ ~MoreSteps(t)
    /\ result' = [result EXCEPT ![t] = payload[t]]
    /\ pc' = [pc EXCEPT ![t] = "done"]
    /\ UNCHANGED <<steps, heap, payload, idx, attempts, start, calls, awaits>>

\* One iteration that appends (lines 39-43).
RunAppend(t) ==
    /\ pc[t] = "while"
    /\ LoopCond(attempts[t], CurrentStep(t).retries)
    /\ ~SkipSet(heap[payload[t]])
    /\ HasHistory(heap[payload[t]])
    /\ attempts' = [attempts EXCEPT ![t] = @ + 1]
    /\ heap' = [heap EXCEPT ![payload[t]] = AppendName(@, CurrentStep(t).name)]
    /\ UNCHANGED <<steps, pc, payload, idx, result, start, calls, awaits>>

\* One iteration that finds skip set and breaks (lines 39-42).
RunBreak(t) ==
    /\ pc[t] = "while"
    /\ LoopCond(attempts[t], CurrentStep(t).retries)
    /\ SkipSet(heap[payload[t]])
    /\ attempts' = [attempts EXCEPT ![t] = @ + 1]
    /\ heap' = [heap EXCEPT ![payload[t]] = AfterBreak(@)]
    /\ pc' = [pc EXCEPT ![t] = "ret"]
    /\ UNCHANGED <<steps, payload, idx, result, start, calls, awaits>>

\* payload["history"] raises KeyError (line 43); neither run nor execute
\* catches it, so it leaves both.
RunKeyError(t) ==
    /\ pc[t] = "while"
    /\ LoopCond(attempts[t], CurrentStep(t).retries)
    /\ ~SkipSet(heap[payload[t]])
    /\ ~HasHistory(heap[payload[t]])
    /\ attempts' = [attempts EXCEPT ![t] = @ + 1]
    /\ pc' = [pc EXCEPT ![t] = OnKeyError]
    /\ UNCHANGED <<steps, heap, payload, idx, result, start, calls, awaits>>

\* The loop condition fails (line 39).
RunExhausted(t) ==
    /\ pc[t] = "while"
    /\ ~LoopCond(attempts[t], CurrentStep(t).retries)
    /\ pc' = [pc EXCEPT ![t] = "ret"]
    /\ UNCHANGED <<steps, heap, payload, idx, attempts, result, start, calls, awaits>>

\* return payload (line 44), payload = ... (line 53), then the await (line 54).
RunReturn(t) ==
    /\ pc[t] = "ret"
    /\ payload' = [payload EXCEPT ![t] = RunResult(@)]
    /\ pc' = [pc EXCEPT ![t] = AfterRun(t)]
    /\ awaits' = [awaits EXCEPT ![t] = IF AfterRun(t) = "sleep" THEN @ + 1 ELSE @]
    /\ UNCHANGED <<steps, heap, idx, attempts, result, start, calls>>

\* The event loop resumes the task after sleep(0) (line 54).
Resume(t) ==
    /\ AtAwait(t)
    /\ LoopFree
    /\ pc' = [pc EXCEPT ![t] = "for"]
    /\ UNCHANGED <<steps, heap, payload, idx, attempts, result, start, calls, awaits>>

\* task.cancel(): CancelledError is raised inside execute at its await.
Cancel(t) ==
    /\ CancelPoint(t)
    /\ pc' = [pc EXCEPT ![t] = "cancelled"]
    /\ UNCHANGED <<steps, heap, payload, idx, attempts, result, start, calls, awaits>>

\* Other code on the event loop sets the flag while an execute is suspended.
SetSkip(r) ==
    /\ LoopFree
    /\ \E t \in Tasks : AtAwait(t) /\ payload[t] = r
    /\ ~SkipSet(heap[r])
    /\ heap' = [heap EXCEPT ![r].skip = TRUE]
    /\ UNCHANGED <<steps, pc, payload, idx, attempts, result, start, calls, awaits>>

Next ==
    \/ \E t \in Tasks : ExecuteCall(t)
    \/ \E t \in Tasks : ExecuteNext(t)
    \/ \E t \in Tasks : ExecuteReturn(t)
    \/ \E t \in Tasks : RunAppend(t)
    \/ \E t \in Tasks : RunBreak(t)
    \/ \E t \in Tasks : RunKeyError(t)
    \/ \E t \in Tasks : RunExhausted(t)
    \/ \E t \in Tasks : RunReturn(t)
    \/ \E t \in Tasks : Resume(t)
    \/ \E t \in Tasks : Cancel(t)
    \/ \E r \in DOMAIN heap : SetSkip(r)

Spec == Init /\ [][Next]_vars

\* Concurrent execute calls on the engine of main, cut to its first steps.
InitConc == InitTasks(1..NumTasks, {SubSeq(MainSteps, 1, n) : n \in 0..MaxConcSteps})

SpecConc == InitConc /\ [][Next]_vars

\* Two execute calls on one engine, each on a record of its own, the two
\* records equal when the calls are made.
PairTasks == {1, 2}

InitPair ==
    /\ steps \in {SubSeq(MainSteps, 1, n) : n \in 0..MaxConcSteps}
    /\ heap \in {[r \in PairTasks |-> p] : p \in Payloads}
    /\ pc = [t \in PairTasks |-> "idle"]
    /\ payload = [t \in PairTasks |-> t]
    /\ idx = [t \in PairTasks |-> 0]
    /\ attempts = [t \in PairTasks |-> 0]
    /\ result = [t \in PairTasks |-> 0]
    /\ start = [t \in PairTasks |-> <<>>]
    /\ calls = [t \in PairTasks |-> <<>>]
    /\ awaits = [t \in PairTasks |-> 0]

SpecPair == InitPair /\ [][Next]_vars

\* What one execute call does when the event loop schedules it.  The loop runs
\* every ready callback, so a started or resumed task keeps being scheduled;
\* cancellation and other code setting skip may or may not happen.
Pipeline(t) ==
    \/ ExecuteCall(t) \/ ExecuteNext(t) \/ ExecuteReturn(t)
    \/ RunAppend(t) \/ RunBreak(t) \/ RunKeyError(t) \/ RunExhausted(t) \/ RunReturn(t)
    \/ Resume(t)

FairSpec == Spec /\ WF_vars(Pipeline(1))

\* ------------------------------------------------- auxiliary definitions
\* nm repeated k times.
Rep(nm, k) == [i \in 1..k |-> nm]

\* The log entry of the latest run call of task t: the step's index and the
\* dict as it was when run was entered.
LastCall(t) == calls[t][Len(calls[t])]

\* The value of the skip flag of dict d, read off the dict itself.
Skip(d) == d.skip

\* The dict task t's payload refers to.
Record(t) == heap[payload[t]]

TypeOK ==
    /\ \A t \in Tasks : pc[t] \in {"idle", "for", "while", "ret", "sleep", "done", "cancelled", "error"}
    /\ \A t \in Tasks : idx[t] \in 0..Len(steps)

\* ---------------------------------------------------------------- C1
\* C1: when run is about to return and the record had a history and skip false
\* on entry (skip cannot change inside run), history is the history on entry
\* followed by exactly retries + 1 copies of the step's name, nothing else.
C1_RunAppendsRetriesPlusOne ==
    \A t \in Tasks :
        (pc[t] = "ret" /\ HasHistory(LastCall(t).entry) /\ ~Skip(LastCall(t).entry))
            => /\ ~Skip(Record(t))
               /\ Record(t).history =
                      LastCall(t).entry.history
                          \o Rep(CurrentStep(t).name, CurrentStep(t).retries + 1)

C1_Witness ==
    /\ pc[1] = "ret"
    /\ HasHistory(LastCall(1).entry)
    /\ ~Skip(LastCall(1).entry)
    /\ LastCall(1).entry.history = <<Earlier>>
    /\ CurrentStep(1).retries = 2
    /\ Len(Record(1).history) = 4

\* ---------------------------------------------------------------- C2
\* C2: when run was entered with skip true, the record (its history included)
\* is at return what it was on entry, whatever the step's retries.
C2_SkipLeavesHistory ==
    \A t \in Tasks :
        (pc[t] = "ret" /\ Skip(LastCall(t).entry))
            => Record(t) = LastCall(t).entry

C2_Witness ==
    /\ pc[1] = "ret"
    /\ Skip(LastCall(1).entry)
    /\ CurrentStep(1).retries = 2
    /\ HasHistory(Record(1))
    /\ Record(1).history = <<Earlier>>

\* ---------------------------------------------------------------- C3
\* C3: from a state where skip is true, no transition of the execute call
\* changes the record: skip stays true and history stays as it is, whichever
\* steps are run afterwards.
C3_NoAppendOnceSkip ==
    [][\A r \in DOMAIN heap : Skip(heap[r]) => heap'[r] = heap[r]]_vars

\* skip was set by other code during a suspension, and a later step has run.
C3_Witness ==
    /\ pc[1] = "ret"
    /\ Len(calls[1]) = 3
    /\ ~Skip(calls[1][1].entry)
    /\ Skip(calls[1][2].entry)
    /\ HasHistory(Record(1))
    /\ Record(1) = calls[1][2].entry

\* ---------------------------------------------------------------- C4
\* What steps 1..k of the engine append when every attempt is recorded:
\* name_1 repeated r_1 + 1 times, then name_2 repeated r_2 + 1 times, ...
AllAttempts(k) ==
    LET RECURSIVE A(_)
        A(j) == IF j = 0 THEN <<>>
                ELSE A(j - 1) \o Rep(steps[j].name, steps[j].retries + 1)
    IN A(k)

\* No run call of task t was entered with skip true.
NeverSkipped(t) == \A k \in 1..Len(calls[t]) : ~Skip(calls[t][k].entry)

\* The record task t's execute was started with.
Started(t) == start[t][1]

\* C4: when execute has returned for a record that had a history: if no step
\* was entered with skip true, the history is the initial history followed by
\* each step's name retries + 1 times, in step order; if skip was true
\* initially, the history is the initial history.  The three named scenarios
\* are stated with their literal results.
C4_ExecuteResult ==
    \A t \in Tasks :
        (pc[t] = "done" /\ HasHistory(Started(t))) =>
            /\ NeverSkipped(t) =>
                   heap[result[t]].history = Started(t).history \o AllAttempts(Len(steps))
            /\ Skip(Started(t)) => heap[result[t]].history = Started(t).history
            /\ (steps = MainSteps /\ Started(t) = [history |-> <<>>, skip |-> FALSE] /\ NeverSkipped(t))
                   => heap[result[t]].history = <<"fetch", "validate", "validate", "transform">>
            /\ (steps = MainSteps /\ Started(t) = [history |-> <<>>, skip |-> TRUE])
                   => heap[result[t]].history = <<>>
            /\ (steps = ScenarioC /\ Started(t) = [history |-> <<>>, skip |-> FALSE] /\ NeverSkipped(t))
                   => heap[result[t]].history = <<"a", "a", "a">>

\* Scenario A has run to its end.
C4_Witness ==
    /\ pc[1] = "done"
    /\ steps = MainSteps
    /\ Started(1) = [history |-> <<>>, skip |-> FALSE]
    /\ NeverSkipped(1)
    /\ heap[result[1]].history = <<"fetch", "validate", "validate", "transform">>

\* ---------------------------------------------------------------- C5
\* The distinct entries of h, in the order of their first appearance.
FirstOccurrences(h) ==
    LET RECURSIVE F(_)
        F(k) == IF k = 0 THEN <<>>
                ELSE IF \E i \in 1..(k - 1) : h[i] = h[k] THEN F(k - 1)
                ELSE Append(F(k - 1), h[k])
    IN F(Len(h))

\* h with every run of equal adjacent entries reduced to one entry.
Collapse(h) ==
    LET RECURSIVE F(_)
        F(k) == IF k = 0 THEN <<>>
                ELSE IF k > 1 /\ h[k - 1] = h[k] THEN F(k - 1)
                ELSE Append(F(k - 1), h[k])
    IN F(Len(h))

\* The names of steps 1..k in configured order.
StepNames(k) == [i \in 1..k |-> steps[i].name]

\* How many steps task t entered before the first one entered with skip true.
EnteredUnskipped(t) ==
    Cardinality({k \in 1..Len(calls[t]) : \A j \in 1..k : ~Skip(calls[t][j].entry)})

DistinctNames == \A i, j \in 1..Len(steps) : i # j => steps[i].name # steps[j].name

\* execute has returned from a call that was started with an empty history.
DoneFromEmpty(t) ==
    pc[t] = "done" /\ HasHistory(Started(t)) /\ Started(t).history = <<>>

\* C5 as stated, for every engine: the names of the final history with repeats
\* left out (read either as first occurrences or as adjacent repeats merged)
\* are the step names in order, cut at the first step entered with skip true.
C5_Original ==
    \A t \in Tasks :
        DoneFromEmpty(t) =>
            \/ FirstOccurrences(heap[result[t]].history) = StepNames(EnteredUnskipped(t))
            \/ Collapse(heap[result[t]].history) = StepNames(EnteredUnskipped(t))

\* C5 amended: the same, for engines whose step names are pairwise distinct,
\* and then under both readings.
C5_StepOrderDistinctNames ==
    \A t \in Tasks :
        (DoneFromEmpty(t) /\ DistinctNames) =>
            /\ FirstOccurrences(heap[result[t]].history) = StepNames(EnteredUnskipped(t))
            /\ Collapse(heap[result[t]].history) = StepNames(EnteredUnskipped(t))

\* Three distinct names, a retried step, and skip set before the third step.
C5_Witness ==
    /\ DoneFromEmpty(1)
    /\ DistinctNames
    /\ Len(steps) = 3
    /\ steps[2].retries = 1
    /\ EnteredUnskipped(1) = 2
    /\ heap[result[1]].history = <<"fetch", "validate", "validate">>

\* ---------------------------------------------------------------- C6
\* The indices of the steps task t has called run on, in call order.
Invoked(t) == [k \in 1..Len(calls[t]) |-> calls[t][k].step]

\* C6: for a record with a history, an execute call that has been entered
\* ends returned or cancelled; it never ends in an error; and when it has
\* returned, run has been called on steps 1..n once each, in that order,
\* whether or not skip was set on the way.
C6_EveryStepThenDone ==
    /\ [](\A t \in Tasks : pc[t] = "done" => Invoked(t) = [k \in 1..Len(steps) |-> k])
    /\ [](\A t \in Tasks : (pc[t] # "idle" /\ HasHistory(Started(t))) => pc[t] # "error")
    /\ ((pc[1] = "for" /\ HasHistory(Record(1))) ~> (pc[1] \in {"done", "cancelled"}))

\* Returned after three run calls, the last two entered with skip true.
C6_Witness ==
    /\ pc[1] = "done"
    /\ Len(steps) = 3
    /\ Invoked(1) = <<1, 2, 3>>
    /\ ~Skip(calls[1][1].entry)
    /\ Skip(calls[1][2].entry)

\* ---------------------------------------------------------------- C7
\* C7: with several execute calls on one event loop, at most one task is
\* inside run in any state; a task enters run only from line 52 of execute,
\* for the step after the one whose run it last returned from, and while no
\* other task is inside run; and the record changes only by the one task that
\* is inside run or by code run while every task is suspended.
C7_OneStepAtATime ==
    /\ [](Cardinality({t \in Tasks : InsideRun(t)}) <= 1)
    /\ [][\A t \in Tasks :
            /\ (pc'[t] = "while" /\ pc[t] # "while") =>
                   /\ pc[t] = "for"
                   /\ Len(calls[t]) = idx[t]
                   /\ idx'[t] = idx[t] + 1
                   /\ \A u \in Tasks \ {t} : pc[u] \notin {"for", "while", "ret"}
            /\ (heap' # heap /\ pc[t] = "while") =>
                   \A u \in Tasks \ {t} : pc[u] \notin {"for", "while", "ret"} /\ pc'[u] = pc[u]]_vars

\* One task is inside the run of its second step while the other is suspended
\* after its first.
C7_Witness ==
    \E t, u \in Tasks :
        /\ t # u
        /\ pc[t] = "while" /\ idx[t] = 2 /\ attempts[t] = 1
        /\ pc[u] = "sleep" /\ idx[u] = 1

\* ---------------------------------------------------------------- C8
\* What the first k run calls of task t contribute: nothing for a call entered
\* with skip true, the step's name retries + 1 times for the others.
Contributed(t, k) ==
    LET RECURSIVE A(_)
        A(j) == IF j = 0 THEN <<>>
                ELSE A(j - 1) \o (IF Skip(calls[t][j].entry) THEN <<>>
                                  ELSE Rep(steps[j].name, steps[j].retries + 1))
    IN A(k)

\* C8: an execute call cancelled after k steps have completed has called run
\* on steps 1..k only, and its record is the record it was started with, its
\* history extended by the whole contribution of steps 1..k and by nothing of
\* a later step; it is the record as the k-th run returned it.
C8_CancelLeavesCompletedSteps ==
    \A t \in Tasks :
        pc[t] = "cancelled" =>
            /\ Invoked(t) = [k \in 1..idx[t] |-> k]
            /\ attempts[t] \in {1, CurrentStep(t).retries + 1}
            /\ HasHistory(Started(t)) =>
                   /\ HasHistory(Record(t))
                   /\ Record(t).history = Started(t).history \o Contributed(t, idx[t])
            /\ ~HasHistory(Started(t)) => ~HasHistory(Record(t))

\* Cancelled after two of three steps, the second one retried.
C8_Witness ==
    /\ pc[1] = "cancelled"
    /\ Len(steps) = 3
    /\ idx[1] = 2
    /\ steps[2].retries = 2
    /\ HasHistory(Record(1))
    /\ NeverSkipped(1)
    /\ Len(Record(1).history) = steps[1].retries + 4

\* ---------------------------------------------------------------- C9
\* C9: when run is called on a step and then again on the same step, on the
\* record the first call returned, with skip false at both entries, the
\* second call appends retries + 1 entries again: at its return history is the
\* history before the first call followed by 2 * (retries + 1) copies of the
\* step's name.
C9_RunNotIdempotent ==
    \A t \in Tasks :
        (/\ pc[t] = "ret"
         /\ idx[t] >= 2
         /\ steps[idx[t]] = steps[idx[t] - 1]
         /\ HasHistory(LastCall(t).entry)
         /\ ~Skip(calls[t][idx[t] - 1].entry)
         /\ ~Skip(LastCall(t).entry))
            => /\ Len(Record(t).history) =
                      Len(calls[t][idx[t] - 1].entry.history) + 2 * (CurrentStep(t).retries + 1)
               /\ Record(t).history =
                      calls[t][idx[t] - 1].entry.history
                          \o Rep(CurrentStep(t).name, 2 * (CurrentStep(t).retries + 1))

\* The same step, with one retry, has run twice from an empty history.
C9_Witness ==
    /\ pc[1] = "ret"
    /\ idx[1] = 2
    /\ steps[1] = steps[2]
    /\ steps[2].retries = 1
    /\ ~Skip(calls[1][1].entry)
    /\ ~Skip(calls[1][2].entry)
    /\ HasHistory(Record(1))
    /\ Record(1).history = <<"fetch", "fetch", "fetch", "fetch">>

\* --------------------------------------------------------------- C10
\* C10 as stated: a run call on a record without a history never returns
\* normally.
C10_Original ==
    \A t \in Tasks : pc[t] = "ret" => HasHistory(LastCall(t).entry)

\* The state of task t apart from its position.
Locals(t) == <<payload[t], idx[t], attempts[t], result[t], calls[t]>>

\* C10 amended: on a record without a history, a run call entered with skip
\* false ends in its first attempt with the error, which leaves run and
\* execute at once: the record is untouched, the task never moves again (no
\* further attempt, no later step, no return value); a run call entered with
\* skip true raises nothing and returns the record untouched after one attempt,
\* so execute returns such a record untouched when skip was true from the
\* start or the engine has no steps.
C10_MalformedRecord ==
    /\ [](\A t \in Tasks :
            /\ (pc[t] = "ret" /\ ~HasHistory(LastCall(t).entry)) =>
                   /\ Skip(LastCall(t).entry)
                   /\ attempts[t] = 1
                   /\ Record(t) = LastCall(t).entry
            /\ pc[t] = "error" =>
                   /\ ~HasHistory(LastCall(t).entry)
                   /\ ~Skip(LastCall(t).entry)
                   /\ attempts[t] = 1
                   /\ Record(t) = LastCall(t).entry
                   /\ Len(calls[t]) = idx[t]
                   /\ result[t] = 0
            /\ (pc[t] = "done" /\ ~HasHistory(Started(t))) =>
                   /\ Len(steps) = 0 \/ Skip(Started(t))
                   /\ heap[result[t]] = Started(t))
    /\ [][\A t \in Tasks :
            /\ (pc[t] = "while" /\ attempts[t] = 0 /\ ~HasHistory(Record(t)) /\ ~Skip(Record(t)))
                   => pc'[t] = "error"
            /\ pc[t] = "error" => (pc'[t] = "error" /\ Locals(t)' = Locals(t) /\ heap' = heap)]_vars

\* The error has surfaced from the first attempt of the first of three steps,
\* a step with two retries left.
C10_Witness ==
    /\ pc[1] = "error"
    /\ Len(steps) = 3
    /\ idx[1] = 1
    /\ steps[1].retries = 2
    /\ attempts[1] = 1

\* --------------------------------------------------------------- C11
\* C11: the await of line 54 is reached once after each return of run and at
\* no other place: a task has reached it as often as it has returned from run
\* (once less than its step count while it is inside run), so an execute that
\* has returned has passed exactly n of them, n the number of steps (none for
\* an empty engine, one also after the last step); the task gets to the await
\* only from the return of run, leaves the return of run only to the await,
\* and leaves the await only to take the next step (or by cancellation).
C11_OneAwaitPerStep ==
    /\ [](\A t \in Tasks :
            /\ pc[t] \in {"while", "ret", "error"} => awaits[t] = idx[t] - 1
            /\ pc[t] \in {"idle", "for", "sleep", "done", "cancelled"} => awaits[t] = idx[t]
            /\ pc[t] = "done" => awaits[t] = Len(steps))
    /\ [][\A t \in Tasks :
            /\ awaits'[t] # awaits[t] =>
                   (pc[t] = "ret" /\ pc'[t] = "sleep" /\ awaits'[t] = awaits[t] + 1)
            /\ (pc'[t] = "sleep" /\ pc[t] # "sleep") => pc[t] = "ret"
            /\ (pc[t] = "ret" /\ pc'[t] # "ret") => pc'[t] = "sleep"
            /\ (pc[t] = "sleep" /\ pc'[t] # "sleep") => pc'[t] \in {"for", "cancelled"}
            /\ (pc'[t] = "while" /\ pc[t] # "while") => (pc[t] = "for" /\ awaits[t] = idx[t])]_vars

\* An execute over three steps has returned after three awaits.
C11_Witness ==
    /\ pc[1] = "done"
    /\ Len(steps) = 3
    /\ awaits[1] = 3

\* --------------------------------------------------------------- C12
\* C12: whenever the skip flag of a record changes, no task has moved and no
\* task held the thread: the change is made by code outside run and execute.
\* Every transition in which a task moves leaves skip as it was, so the
\* pipeline never sets it and never resets a true skip to false.
C12_PipelineNeverWritesSkip ==
    [][\A r \in DOMAIN heap :
          Skip(heap'[r]) # Skip(heap[r]) =>
              /\ pc' = pc
              /\ \A t \in Tasks : pc[t] \notin {"for", "while", "ret"}
              /\ <<payload, idx, attempts, result, calls, awaits>>'
                     = <<payload, idx, attempts, result, calls, awaits>>]_vars

\* A run call has broken out of its loop on a skip set by other code, and skip
\* is still true.
C12_Witness ==
    /\ pc[1] = "ret"
    /\ idx[1] = 2
    /\ ~Skip(calls[1][1].entry)
    /\ Skip(calls[1][2].entry)
    /\ Skip(Record(1))
    /\ attempts[1] = 1

\* --------------------------------------------------------------- C13
\* s is an initial segment of h.
IsPrefix(s, h) == Len(s) <= Len(h) /\ SubSeq(h, 1, Len(s)) = s

\* C13: across every transition a record that has a history keeps it as an
\* initial segment of the new history, and when the history changes it grows
\* by one entry at its end, the name of the step of a task that is inside
\* the attempt loop of run on that record.
C13_HistoryAppendOnly ==
    [][\A r \in DOMAIN heap :
          HasHistory(heap[r]) =>
              /\ HasHistory(heap'[r])
              /\ IsPrefix(heap[r].history, heap'[r].history)
              /\ heap'[r].history # heap[r].history =>
                     \E t \in Tasks :
                         /\ pc[t] = "while"
                         /\ payload[t] = r
                         /\ heap'[r].history = Append(heap[r].history, steps[idx[t]].name)]_vars

\* The second step of three is appending its second entry.
C13_Witness ==
    /\ pc[1] = "while"
    /\ Len(steps) = 3
    /\ idx[1] = 2
    /\ attempts[1] = 2
    /\ HasHistory(Record(1))
    /\ Record(1).history = <<Earlier, "fetch", "validate", "validate">>

\* --------------------------------------------------------------- C14
\* How many entries the record of task t has gained since its latest run
\* call was entered.
Appended(t) == Len(Record(t).history) - Len(LastCall(t).entry.history)

\* C14: with several execute calls and other code on the event loop, a run
\* call that is about to return on a record with a history has appended
\* nothing (skip was true on entry) or exactly retries + 1 entries (skip was
\* false on entry); while it is in its loop it has appended as many entries
\* as it has made attempts, all of them its step's name.
C14_AllOrNothing ==
    \A t \in Tasks :
        (pc[t] \in {"while", "ret"} /\ HasHistory(LastCall(t).entry)) =>
            /\ pc[t] = "ret" => Appended(t) \in {0, steps[idx[t]].retries + 1}
            /\ pc[t] = "ret" => (Appended(t) = 0 <=> Skip(LastCall(t).entry))
            /\ pc[t] = "while" => Appended(t) = attempts[t]
            /\ Record(t).history =
                   LastCall(t).entry.history \o Rep(steps[idx[t]].name, Appended(t))

\* A retried step has appended both of its entries while another execute call
\* on the same record is suspended after its first step.
C14_Witness ==
    \E t, u \in Tasks :
        /\ t # u
        /\ pc[t] = "ret" /\ idx[t] = 2 /\ steps[2].retries = 1
        /\ HasHistory(Record(t)) /\ Appended(t) = 2
        /\ pc[u] = "sleep" /\ idx[u] = 1

\* --------------------------------------------------------------- C16
\* Where in the history the k-th run call of task t started to write, and how
\* many entries it is due: its step's retries + 1.
BlockStart(t, k) == Len(calls[t][k].entry.history)

BlockLen(k) == steps[k].retries + 1

\* The length of the history before any of the execute calls was entered.
InitialLen ==
    LET first == CHOOSE t \in Tasks :
                     \A u \in Tasks : Len(Started(t).history) <= Len(Started(u).history)
    IN Len(Started(first).history)

\* Every execute call has returned, on a record with a history, and no run
\* call was entered with skip true.
AllDoneUnskipped ==
    \A t \in Tasks : pc[t] = "done" /\ HasHistory(Started(t)) /\ NeverSkipped(t)

\* C16: when concurrent execute calls on one record have all returned with
\* skip false throughout, then in the final history every run call's
\* retries + 1 entries stand together as one block of its step's name, the
\* blocks of one call follow each other in step order, blocks of different
\* calls do not overlap, and the history has grown by the sum of what each
\* call adds alone.
C16_BlocksInterleave ==
    AllDoneUnskipped =>
        /\ \A t \in Tasks :
               /\ Invoked(t) = [k \in 1..Len(steps) |-> k]
               /\ \A k \in 1..Len(steps) :
                      SubSeq(heap[result[t]].history,
                             BlockStart(t, k) + 1, BlockStart(t, k) + BlockLen(k))
                          = Rep(steps[k].name, BlockLen(k))
               /\ \A k \in 1..(Len(steps) - 1) :
                      BlockStart(t, k) + BlockLen(k) <= BlockStart(t, k + 1)
               /\ Len(heap[result[t]].history)
                      = InitialLen + Cardinality(Tasks) * Len(AllAttempts(Len(steps)))
        /\ \A t, u \in Tasks : \A k, j \in 1..Len(steps) :
               t # u =>
                   \/ BlockStart(t, k) + BlockLen(k) <= BlockStart(u, j)
                   \/ BlockStart(u, j) + BlockLen(j) <= BlockStart(t, k)

\* Two calls over fetch/0, validate/1 have alternated step by step.
C16_Witness ==
    /\ AllDoneUnskipped
    /\ Cardinality(Tasks) = 2
    /\ Len(steps) = 2
    /\ heap[1].history = <<"fetch", "fetch", "validate", "validate", "validate", "validate">>

\* --------------------------------------------------------------- C15
\* Tasks t and u saw the same skip flag at the entry of each of their run
\* calls and see the same flag now.
SameSkipChanges(t, u) ==
    /\ \A k \in 1..Len(steps) :
           (k <= Len(calls[t]) /\ k <= Len(calls[u]))
               => Skip(calls[t][k].entry) = Skip(calls[u][k].entry)
    /\ Skip(Record(t)) = Skip(Record(u))

\* C15: no transition changes the engine's step list, a step's name or a
\* step's retries; and when two execute calls on the engine, started on equal
\* records and meeting the same changes of skip, have both returned, the
\* records they return are equal.
C15_EngineStateless ==
    /\ [][steps' = steps]_vars
    /\ [](\A t, u \in Tasks :
            (/\ pc[t] = "done" /\ pc[u] = "done"
             /\ Started(t) = Started(u)
             /\ SameSkipChanges(t, u))
                => heap[result[t]] = heap[result[u]])

\* Two calls on separate records have returned the same history, each after
\* skip was set on its record before its second step.
C15_Witness ==
    /\ pc[1] = "done" /\ pc[2] = "done"
    /\ result[1] # result[2]
    /\ Len(steps) = 2
    /\ Skip(calls[1][2].entry) /\ Skip(calls[2][2].entry)
    /\ heap[result[1]] = [history |-> <<Earlier, "fetch">>, skip |-> TRUE]
    /\ heap[result[2]] = heap[result[1]]

\* --------------------------------------------------------------- C17
\* C17: with two callers that each pass a dict of their own (caller t holds
\* reference t), execute's payload is the caller's reference in every state:
\* no transition rebinds it to another dict, run hands back the reference it
\* was given, and execute returns that reference; so the dict the caller
\* holds carries every entry the completed run calls have appended.
C17_SameRecordThroughout ==
    /\ [][payload' = payload]_vars
    /\ [](\A t \in Tasks :
            /\ payload[t] = t
            /\ pc[t] = "done" => result[t] = t
            /\ (pc[t] \in {"sleep", "for", "done", "cancelled"} /\ idx[t] > 0
                    /\ HasHistory(Started(t)))
                   => heap[t].history = Started(t).history \o Contributed(t, idx[t]))

\* The second caller's execute has returned its own dict, with both steps'
\* entries in it, while the first caller's dict is still empty.
C17_Witness ==
    /\ pc[2] = "done"
    /\ result[2] = 2
    /\ Len(steps) = 2
    /\ heap[2] = [history |-> <<"fetch", "validate", "validate">>, skip |-> FALSE]
    /\ heap[1] = [history |-> <<>>, skip |-> FALSE]

\* --------------------------------------------------------------- C18
\* C18: run's attempts is 0 when the loop is entered, goes up by one in every
\* iteration whatever skip is (also in the one that breaks), and is at most
\* retries + 1 inside run.  At the return it is 1 when skip was true on entry,
\* with attempts - 1 = 0 entries appended, and retries + 1 when skip was false
\* (on a record with a history), with attempts entries appended.
C18_AttemptCounter ==
    /\ [](\A t \in Tasks :
            /\ pc[t] \in {"while", "ret"} =>
                   (attempts[t] >= 0 /\ attempts[t] <= steps[idx[t]].retries + 1)
            /\ (pc[t] = "ret" /\ Skip(LastCall(t).entry)) =>
                   /\ attempts[t] = 1
                   /\ HasHistory(Record(t)) => Appended(t) = attempts[t] - 1
            /\ (pc[t] = "ret" /\ ~Skip(LastCall(t).entry) /\ HasHistory(LastCall(t).entry)) =>
                   /\ attempts[t] = steps[idx[t]].retries + 1
                   /\ Appended(t) = attempts[t])
    /\ [][\A t \in Tasks :
            /\ (pc'[t] = "while" /\ pc[t] # "while") => attempts'[t] = 0
            /\ (pc[t] = "while" /\ attempts[t] <= steps[idx[t]].retries)
                   => attempts'[t] = attempts[t] + 1
            /\ (pc[t] = "while" /\ attempts[t] > steps[idx[t]].retries)
                   => (attempts'[t] = attempts[t] /\ pc'[t] = "ret")]_vars

\* A step with two retries has returned after one attempt, on a skip that was
\* set during the await before it.
C18_Witness ==
    /\ pc[1] = "ret"
    /\ idx[1] = 2
    /\ steps[2].retries = 2
    /\ ~Skip(calls[1][1].entry)
    /\ Skip(calls[1][2].entry)
    /\ attempts[1] = 1
    /\ HasHistory(Record(1))
    /\ Appended(1) = 0
====
